---- MODULE Spec2Model ----
(***************************************************************************)
(* Model of the two command-line programs of example-tensorflow-golang:   *)
(* the chip-based detector (package main with H, W = 300, 300, type Chip, *)
(* type Detect, transformBox, printDetections) and the classifier         *)
(* (main.go, printBestLabel).  The inference engine is an environment     *)
(* that either fails or returns values drawn from small sets.             *)
(*                                                                         *)
(* float32 values are modelled as integer numerators over Den, a power of *)
(* two, so that every value and every product with W, H or 100 used here  *)
(* is exactly representable in float32.                                    *)
(***************************************************************************)
EXTENDS Integers, Sequences, FiniteSets, TLC

VARIABLES
    pc,            \* position of the running program
    exit,          \* "running", "ok" (status 0), "fatal" (log.Fatal), "panic"
    labelsFile,    \* labels.txt: [state |-> "missing" | "readerr" | "ok", lines]
    flagsOk,       \* both -dir and -image were supplied
    firstErr,      \* history: the first operation that returned an error
    \* ---- detector ----
    im,            \* bounds of the decoded image (image.Rectangle)
    wn, hn,        \* grid size
    i,             \* loop index of the tiling loop, then of the range loop
    chips,         \* []Chip
    tmp,           \* content of /tmp/chip-<k>.png, k = index - 1
    faults,        \* number of ignored temp-file failures so far
    nrows,         \* rows in each batched output of the imported graph
    tensor,        \* result of makeTensorFromImage for the current chip
    output,        \* rows returned by session.Run for the current chip
    detects,       \* []Detect of the current chip
    labels,        \* map[int]string built by printDetections
    printed,       \* lines printed by the last printDetections call
    trace,         \* history: preprocess / inference / line events
    \* ---- classifier ----
    probabilities, \* []float32 (numerators over Den)
    bestIdx,       \* printBestLabel's bestIdx
    k,             \* index of printBestLabel's range loop
    clabels,       \* []string read by printBestLabel
    best,          \* the line printed by printBestLabel, or <<>>
    \* ---- transformBox on its own ----
    tbX, tbY,      \* chipX, chipY
    tbBox,         \* box []float32 (numerators over Den)
    tbRect         \* the returned image.Rectangle, or <<>>

shared == <<pc, exit, labelsFile, flagsOk, firstErr>>
dvars == <<im, wn, hn, i, chips, tmp, faults, nrows, tensor, output,
           detects, labels, printed, trace>>
cvars == <<probabilities, bestIdx, k, clabels, best>>
bvars == <<tbX, tbY, tbBox, tbRect>>
vars == <<shared, dvars, cvars, bvars>>

----------------------------------------------------------------------------
(* Program constants *)

W == 300
H == 300

(* Bounds of the model *)

MaxWn == 2          \* images are up to MaxWn chips wide (plus a remainder)
MaxHn == 2          \* images are up to MaxHn chips high (plus a remainder)
MaxRows == 1        \* rows in one batched detection output
MaxTileFaults == 1  \* ignored temp-file failures in one run
MaxProbs == 3       \* length of the probability vector
FracBits == 4       \* float32 inputs are multiples of 1 / 2^FracBits

Den == 2 ^ FracBits

----------------------------------------------------------------------------
(* Arithmetic of the conversions *)

\* int(f) for a float32 f = n / d: truncation toward zero.
Trunc(n, d) == IF n >= 0 THEN n \div d ELSE -((-n) \div d)

\* "%2.0f" of n / d: nearest integer, ties to even (n >= 0).
FormatF0(n, d) ==
    LET q == n \div d
        r == n % d
    IN  IF 2 * r < d THEN q
        ELSE IF 2 * r > d THEN q + 1
        ELSE IF q % 2 = 0 THEN q ELSE q + 1

----------------------------------------------------------------------------
(* image.Point, image.Rectangle *)

Pt(x, y) == [X |-> x, Y |-> y]
ZR == [Min |-> Pt(0, 0), Max |-> Pt(0, 0)]

\* image.Rect: a well-formed rectangle from two corners.
Rect(x0, y0, x1, y1) ==
    [Min |-> Pt(IF x0 > x1 THEN x1 ELSE x0, IF y0 > y1 THEN y1 ELSE y0),
     Max |-> Pt(IF x0 > x1 THEN x0 ELSE x1, IF y0 > y1 THEN y0 ELSE y1)]

Dx(r) == r.Max.X - r.Min.X
Dy(r) == r.Max.Y - r.Min.Y
Empty(r) == r.Min.X >= r.Max.X \/ r.Min.Y >= r.Max.Y

\* Rectangle.Intersect, as used by SubImage.
Intersect(r, s) ==
    LET t == [Min |-> Pt(IF r.Min.X < s.Min.X THEN s.Min.X ELSE r.Min.X,
                         IF r.Min.Y < s.Min.Y THEN s.Min.Y ELSE r.Min.Y),
              Max |-> Pt(IF r.Max.X > s.Max.X THEN s.Max.X ELSE r.Max.X,
                         IF r.Max.Y > s.Max.Y THEN s.Max.Y ELSE r.Max.Y)]
    IN  IF Empty(t) THEN ZR ELSE t

\* im.SubImage(r): the bounds of the returned image.
SubImage(bounds, r) == Intersect(r, bounds)

----------------------------------------------------------------------------
(* Tiling *)

GridW(bounds) == Dx(bounds) \div W
GridH(bounds) == Dy(bounds) \div H

ChipX_rowlen(idx, n) == idx \div n
ChipX(idx, n) == idx % n

ChipY(idx, n) == idx \div n

ChipRect_stride(x, y) == Rect(x * (W - 1), y * H, x * (W - 1) + W, y * H + H)
ChipRect(x, y) == Rect(x * W, y * H, x * W + W, y * H + H)

ZeroChip == [X |-> 0, Y |-> 0, Im |-> <<>>]

----------------------------------------------------------------------------
(* transformBox *)

transformBox_floor(chipX, chipY, box) ==
    [Min |-> Pt(((box[1] * W) \div Den) + (chipX * W),
                ((box[2] * H) \div Den) + (chipY * H)),
     Max |-> Pt(((box[3] * W) \div Den) + (chipX * W),
                ((box[4] * H) \div Den) + (chipY * H))]
transformBox(chipX, chipY, box) ==
    LET mx == Trunc(box[1] * W, Den) + (chipX * W)
        Mx == Trunc(box[3] * W, Den) + (chipX * W)
        my == Trunc(box[2] * H, Den) + (chipY * H)
        My == Trunc(box[4] * H, Den) + (chipY * H)
    IN  [Min |-> Pt(mx, my), Max |-> Pt(Mx, My)]

----------------------------------------------------------------------------
(* Label files.  A line is a sequence of one-character strings. *)

Digits == {"0", "1", "2", "3", "4", "5", "6", "7", "8", "9"}

DigitVal(c) ==
    CASE c = "0" -> 0 [] c = "1" -> 1 [] c = "2" -> 2 [] c = "3" -> 3
      [] c = "4" -> 4 [] c = "5" -> 5 [] c = "6" -> 6 [] c = "7" -> 7
      [] c = "8" -> 8 [] c = "9" -> 9

RECURSIVE SplitAcc(_, _, _)
SplitAcc(s, cur, acc) ==
    IF s = <<>> THEN Append(acc, cur)
    ELSE IF Head(s) = ":" THEN SplitAcc(Tail(s), <<>>, Append(acc, cur))
    ELSE SplitAcc(Tail(s), Append(cur, Head(s)), acc)

\* strings.Split(line, ":")
Split(line) == SplitAcc(line, <<>>, <<>>)

RECURSIVE DecVal(_, _)
DecVal(s, acc) ==
    IF s = <<>> THEN acc ELSE DecVal(Tail(s), 10 * acc + DigitVal(Head(s)))

\* strconv.Atoi: the value, or 0 and an error.
Atoi(s) ==
    LET body == IF s # <<>> /\ Head(s) \in {"+", "-"} THEN Tail(s) ELSE s
    IN  IF body # <<>> /\ \A n \in 1..Len(body) : body[n] \in Digits
        THEN [val |-> IF Head(s) = "-" THEN -DecVal(body, 0)
                      ELSE DecVal(body, 0),
              err |-> FALSE]
        ELSE [val |-> 0, err |-> TRUE]

\* The loop of printDetections over the scanned lines: the map built so
\* far, and whether splits[1] was out of range.
RECURSIVE ParseLabels(_, _)
ParseLabels(lines, m) ==
    IF lines = <<>> THEN [labels |-> m, panic |-> FALSE]
    ELSE LET splits == Split(Head(lines))
             id == Atoi(splits[1]).val
         IN  IF Len(splits) < 2 THEN [labels |-> m, panic |-> TRUE]
             ELSE ParseLabels(Tail(lines),
                      [n \in DOMAIN m \cup {id} |->
                          IF n = id THEN splits[2] ELSE m[n]])

EmptyMap == [n \in {} |-> <<>>]

\* What the bufio.Scanner yields: every line of a readable file, nothing
\* once a read fails.
ScannedLines(f) == IF f.state = "ok" THEN f.lines ELSE <<>>

LabelFiles ==
    { [state |-> "missing", lines |-> <<>>],
      [state |-> "readerr", lines |-> <<>>],
      [state |-> "ok", lines |-> << <<"0", ":", "p">>, <<"1", ":", "c">> >>],
      [state |-> "ok", lines |-> << <<"1", ":", "c">>, <<"x", ":", "d">> >>],
      [state |-> "ok", lines |-> << <<"1", ":", "c">>, <<"d">> >>] }

----------------------------------------------------------------------------
(* Inputs of the detector *)

ImageWidths == {c * W + r : c \in 0..MaxWn, r \in {0, W - 1}} \ {0}
ImageHeights == {c * H + r : c \in 0..MaxHn, r \in {0, H - 1}} \ {0}

\* One row of the batched output: boxes[r], classes[r], scores[r].
RowSet ==
    { [box |-> <<0, 0, Den, Den>>, class |-> Den, score |-> Den - 1],
      [box |-> <<1, -1, Den + 1, Den - 1>>, class |-> 2 * Den, score |-> 1] }

Outputs(n) == [1..n -> RowSet]

TileOutcomes == {"ok", "create_absent", "create_stale", "write"}

\* Content of /tmp/chip-<i>.png after os.Create, png.Encode and Close:
\* written in this run ("cur"); os.Create failed and there is no file
\* ("absent") or the file of an earlier run is still there ("stale");
\* png.Encode or Close failed and the file is incomplete ("partial").
TmpAfter(o) ==
    CASE o = "ok" -> "cur"
      [] o = "create_absent" -> "absent"
      [] o = "create_stale" -> "stale"
      [] o = "write" -> "partial"

Put(f, key, v) == [n \in DOMAIN f \cup {key} |-> IF n = key THEN v ELSE f[n]]

ZeroDetect == [Bounds |-> ZR, Class |-> 0, Chip |-> <<>>,
               Description |-> <<>>, Confidence |-> 0]

MakeDetect(chip, row) ==
    [Bounds |-> transformBox(chip.X, chip.Y, row.box),
     Class |-> Trunc(row.class, Den),
     Chip |-> chip,
     Description |-> <<>>,
     Confidence |-> row.score]

\* The fields printed by fmt.Printf for one Detect.
Line(d) == <<d.Bounds.Min.X, d.Bounds.Min.Y, d.Bounds.Max.X, d.Bounds.Max.Y,
             d.Class, d.Confidence>>

RangeNext_skip(idx) == idx + 2
RangeNext(idx) == idx + 1

----------------------------------------------------------------------------
(* The detector *)

Noted(op) == IF firstErr = "none" THEN op ELSE firstErr

\* log.Fatal(err)
Fatal(op) ==
    /\ exit' = "fatal"
    /\ pc' = "halt"
    /\ firstErr' = Noted(op)

DetectorIdle ==
    /\ im = <<>>
    /\ wn = 0
    /\ hn = 0
    /\ i = 0
    /\ chips = <<>>
    /\ tmp = [n \in {} |-> "absent"]
    /\ faults = 0
    /\ nrows = 0
    /\ tensor = <<>>
    /\ output = <<>>
    /\ detects = <<>>
    /\ labels = EmptyMap
    /\ printed = <<>>
    /\ trace = <<>>

ClassifierIdle ==
    /\ probabilities = <<>>
    /\ bestIdx = 0
    /\ k = 0
    /\ clabels = <<>>
    /\ best = <<>>

BoxIdle ==
    /\ tbX = 0
    /\ tbY = 0
    /\ tbBox = <<>>
    /\ tbRect = <<>>

InitDetector ==
    /\ pc = "flags"
    /\ exit = "running"
    /\ labelsFile \in LabelFiles
    /\ flagsOk \in BOOLEAN
    /\ firstErr = "none"
    /\ DetectorIdle
    /\ ClassifierIdle
    /\ BoxIdle

ParseFlags ==
    /\ pc = "flags"
    /\ IF flagsOk
       THEN pc' = "load" /\ exit' = exit
       ELSE pc' = "halt" /\ exit' = "ok"
    /\ UNCHANGED <<labelsFile, flagsOk, firstErr, dvars, cvars, bvars>>

\* modelFiles, ioutil.ReadFile, graph.Import, tf.NewSession.  The imported
\* graph fixes the number of rows of its detection outputs.
LoadModel ==
    /\ pc = "load"
    /\ \/ /\ Fatal("load")
          /\ nrows' = nrows
       \/ /\ \E n \in 0..MaxRows : nrows' = n
          /\ pc' = "open"
          /\ UNCHANGED <<exit, firstErr>>
    /\ UNCHANGED <<labelsFile, flagsOk, im, wn, hn, i, chips, tmp, faults,
                   tensor, output, detects, labels, printed, trace,
                   cvars, bvars>>

\* os.Open, jpeg.Decode
OpenImage ==
    /\ pc = "open"
    /\ \/ /\ Fatal("image")
          /\ im' = im
       \/ /\ \E w \in ImageWidths, h \in ImageHeights : im' = Rect(0, 0, w, h)
          /\ pc' = "grid"
          /\ UNCHANGED <<exit, firstErr>>
    /\ UNCHANGED <<labelsFile, flagsOk, wn, hn, i, chips, tmp, faults,
                   nrows, tensor, output, detects, labels, printed, trace,
                   cvars, bvars>>

ComputeGrid ==
    /\ pc = "grid"
    /\ wn' = GridW(im)
    /\ hn' = GridH(im)
    /\ chips' = [n \in 1..(GridW(im) * GridH(im)) |-> ZeroChip]
    /\ i' = 0
    /\ pc' = "tile"
    /\ UNCHANGED <<exit, labelsFile, flagsOk, im, tmp, faults, firstErr,
                   nrows, tensor, output, detects, labels, printed, trace,
                   cvars, bvars>>

\* One iteration of the tiling loop.
TileChip ==
    /\ pc = "tile"
    /\ i < wn * hn
    /\ LET x == ChipX(i, wn)
           y == ChipY(i, wn)
           chip == SubImage(im, ChipRect(x, y))
       IN  /\ chips' = [chips EXCEPT ![i + 1] = [X |-> x, Y |-> y, Im |-> chip]]
           /\ \E o \in TileOutcomes :
                 /\ o # "ok" => faults < MaxTileFaults
                 /\ tmp' = Put(tmp, i, TmpAfter(o))
                 /\ faults' = IF o = "ok" THEN faults ELSE faults + 1
                 /\ firstErr' = IF o = "ok" THEN firstErr ELSE Noted(o)
    /\ i' = i + 1
    /\ UNCHANGED <<pc, exit, labelsFile, flagsOk, im, wn, hn, nrows, tensor, output,
                   detects, labels, printed, trace, cvars, bvars>>

EndTile ==
    /\ pc = "tile"
    /\ ~(i < wn * hn)
    /\ pc' = "range"
    /\ i' = 0
    /\ UNCHANGED <<exit, labelsFile, flagsOk, im, wn, hn, chips, tmp, faults,
                   firstErr, nrows, tensor, output, detects, labels, printed, trace,
                   cvars, bvars>>

\* makeTensorFromImage("/tmp/chip-<i>.png"): ioutil.ReadFile fails on a
\* missing file, the decoding graph fails on an incomplete one and may fail
\* on any.
MakeTensor ==
    /\ pc = "range"
    /\ i < Len(chips)
    /\ \/ /\ tmp[i] = "absent"
          /\ Fatal("readfile")
          /\ UNCHANGED <<tensor, trace>>
       \/ /\ Fatal("normalize")
          /\ UNCHANGED <<tensor, trace>>
       \/ /\ tmp[i] \notin {"absent", "partial"}
          /\ tensor' = [chip |-> i, data |-> tmp[i]]
          /\ trace' = Append(trace, [ev |-> "pre", chip |-> i, data |-> tmp[i]])
          /\ pc' = "run"
          /\ UNCHANGED <<exit, firstErr>>
    /\ UNCHANGED <<labelsFile, flagsOk, im, wn, hn, i, chips, tmp, faults,
                   nrows, output, detects, labels, printed, cvars, bvars>>

\* session.Run on the loaded graph
SessionRun ==
    /\ pc = "run"
    /\ \/ /\ Fatal("run")
          /\ UNCHANGED <<output, trace>>
       \/ /\ \E rows \in Outputs(nrows) : output' = rows
          /\ trace' = Append(trace, [ev |-> "infer", chip |-> tensor.chip,
                                       data |-> tensor.data])
          /\ pc' = "build"
          /\ UNCHANGED <<exit, firstErr>>
    /\ UNCHANGED <<labelsFile, flagsOk, im, wn, hn, i, chips, tmp, faults,
                   nrows, tensor, detects, labels, printed, cvars, bvars>>

\* detects := make([]Detect, 1), then one append per score
BuildDetects ==
    /\ pc = "build"
    /\ detects' = <<ZeroDetect>> \o
                  [r \in 1..Len(output) |-> MakeDetect(chips[i + 1], output[r])]
    /\ pc' = "print"
    /\ UNCHANGED <<exit, labelsFile, flagsOk, im, wn, hn, i, chips, tmp,
                   faults, firstErr, nrows, tensor, output, labels, printed, trace,
                   cvars, bvars>>

\* printDetections(detects, labelsfile), then the next iteration
PrintDetections ==
    /\ pc = "print"
    /\ IF labelsFile.state = "missing"
       THEN /\ Fatal("openlabels")
            /\ UNCHANGED <<labels, printed, trace, i>>
       ELSE LET p == ParseLabels(ScannedLines(labelsFile), EmptyMap)
            IN  /\ labels' = p.labels
                /\ IF p.panic
                   THEN /\ exit' = "panic"
                        /\ pc' = "halt"
                        /\ firstErr' = Noted("splits")
                        /\ UNCHANGED <<printed, trace, i>>
                   ELSE /\ printed' = [n \in 1..Len(detects) |-> Line(detects[n])]
                        /\ trace' = trace \o [n \in 1..Len(detects) |->
                                                 [ev |-> "line", chip |-> i,
                                                  data |-> "stdout"]]
                        /\ i' = RangeNext(i)
                        /\ pc' = "range"
                        /\ firstErr' = IF labelsFile.state = "readerr"
                                       THEN Noted("readlabels") ELSE firstErr
                        /\ exit' = exit
    /\ UNCHANGED <<labelsFile, flagsOk, im, wn, hn, chips, tmp, faults,
                   nrows, tensor, output, detects, cvars, bvars>>

\* the range loop is exhausted and main returns
Finish ==
    /\ pc = "range"
    /\ ~(i < Len(chips))
    /\ pc' = "halt"
    /\ exit' = "ok"
    /\ UNCHANGED <<labelsFile, flagsOk, firstErr, dvars, cvars, bvars>>

NextDetector ==
    \/ ParseFlags
    \/ LoadModel
    \/ OpenImage
    \/ ComputeGrid
    \/ TileChip
    \/ EndTile
    \/ MakeTensor
    \/ SessionRun
    \/ BuildDetects
    \/ PrintDetections
    \/ Finish

SpecDetector == InitDetector /\ [][NextDetector]_vars

----------------------------------------------------------------------------
(* The classifier (main.go) *)

ProbVals == {0, 1, 3, Den}
ProbVectors == UNION {[1..n -> ProbVals] : n \in 0..MaxProbs}

Better_orEqual(p, q) == p >= q
\* the comparison of printBestLabel's loop
Better(p, q) == p > q

InitClassifier ==
    /\ pc = "cflags"
    /\ exit = "running"
    /\ labelsFile \in LabelFiles
    /\ flagsOk \in BOOLEAN
    /\ firstErr = "none"
    /\ DetectorIdle
    /\ ClassifierIdle
    /\ BoxIdle

CParseFlags ==
    /\ pc = "cflags"
    /\ IF flagsOk
       THEN pc' = "cload" /\ exit' = exit
       ELSE pc' = "halt" /\ exit' = "ok"
    /\ UNCHANGED <<labelsFile, flagsOk, firstErr, dvars, cvars, bvars>>

\* modelFiles, ioutil.ReadFile, graph.Import, tf.NewSession
CLoadModel ==
    /\ pc = "cload"
    /\ \/ Fatal("load")
       \/ pc' = "cinfer" /\ UNCHANGED <<exit, firstErr>>
    /\ UNCHANGED <<labelsFile, flagsOk, dvars, cvars, bvars>>

\* makeTensorFromImage, session.Run, and the entry of printBestLabel
CInfer ==
    /\ pc = "cinfer"
    /\ \/ /\ Fatal("run")
          /\ UNCHANGED <<probabilities, bestIdx, k>>
       \/ /\ \E p \in ProbVectors : probabilities' = p
          /\ bestIdx' = 0
          /\ k' = 0
          /\ pc' = "best"
          /\ UNCHANGED <<exit, firstErr>>
    /\ UNCHANGED <<labelsFile, flagsOk, clabels, best, dvars, bvars>>

\* one iteration of "for i, p := range probabilities"
ScanBest ==
    /\ pc = "best"
    /\ k < Len(probabilities)
    /\ bestIdx' = IF Better(probabilities[k + 1], probabilities[bestIdx + 1])
                  THEN k ELSE bestIdx
    /\ k' = k + 1
    /\ UNCHANGED <<shared, probabilities, clabels, best, dvars, bvars>>

\* os.Open(labelsFile)
OpenLabels ==
    /\ pc = "best"
    /\ ~(k < Len(probabilities))
    /\ IF labelsFile.state = "missing"
       THEN Fatal("openlabels")
       ELSE pc' = "cread" /\ UNCHANGED <<exit, firstErr>>
    /\ UNCHANGED <<labelsFile, flagsOk, dvars, cvars, bvars>>

\* the scanner loop; scanner.Err() is only logged
ReadLabels ==
    /\ pc = "cread"
    /\ clabels' = ScannedLines(labelsFile)
    /\ firstErr' = IF labelsFile.state = "readerr"
                   THEN Noted("readlabels") ELSE firstErr
    /\ pc' = "cprint"
    /\ UNCHANGED <<exit, labelsFile, flagsOk, probabilities, bestIdx, k, best,
                   dvars, bvars>>

\* fmt.Printf("BEST MATCH: (%2.0f%% likely) %s\n", ...), then main returns
PrintBest ==
    /\ pc = "cprint"
    /\ pc' = "halt"
    /\ IF bestIdx < Len(probabilities) /\ bestIdx < Len(clabels)
       THEN /\ best' = <<FormatF0(probabilities[bestIdx + 1] * 100, Den),
                         clabels[bestIdx + 1]>>
            /\ exit' = "ok"
            /\ firstErr' = firstErr
       ELSE /\ best' = best
            /\ exit' = "panic"
            /\ firstErr' = Noted("index")
    /\ UNCHANGED <<labelsFile, flagsOk, probabilities, bestIdx, k, clabels,
                   dvars, bvars>>

NextClassifier ==
    \/ CParseFlags
    \/ CLoadModel
    \/ CInfer
    \/ ScanBest
    \/ OpenLabels
    \/ ReadLabels
    \/ PrintBest

SpecClassifier == InitClassifier /\ [][NextClassifier]_vars

----------------------------------------------------------------------------
(* transformBox on its own inputs *)

BoxNums == {-1, 0, 1, Den \div 2, Den - 1, Den, Den + 1}

InitBox ==
    /\ pc = "tb_call"
    /\ exit = "running"
    /\ labelsFile = [state |-> "missing", lines |-> <<>>]
    /\ flagsOk = TRUE
    /\ firstErr = "none"
    /\ DetectorIdle
    /\ ClassifierIdle
    /\ tbX \in 0..(MaxWn - 1)
    /\ tbY \in 0..(MaxHn - 1)
    /\ tbBox \in [1..4 -> BoxNums]
    /\ tbRect = <<>>

CallTransformBox ==
    /\ pc = "tb_call"
    /\ tbRect' = transformBox(tbX, tbY, tbBox)
    /\ pc' = "tb_ret"
    /\ UNCHANGED <<exit, labelsFile, flagsOk, firstErr, tbX, tbY, tbBox,
                   dvars, cvars>>

NextBox == CallTransformBox

SpecBox == InitBox /\ [][NextBox]_vars

----------------------------------------------------------------------------
(* Properties *)

\* floor(a / b) by its defining inequalities
FloorDiv(a, b) == CHOOSE q \in 0..a : q * b <= a /\ a < (q + 1) * b

\* the tiling loop has just run to its end
TilingDone == pc = "range" /\ i = 0

\* C1: the tiling loop produces exactly floor(Wi/W) * floor(Hi/H) chips;
\* chip n has X = n mod wn, Y = n div wn and is cropped from the rectangle
\* (X*W, Y*H)-((X+1)*W, (Y+1)*H); an image smaller than one chip yields no
\* chips and no error.
C1_TilingContract ==
    TilingDone =>
        LET fw == FloorDiv(Dx(im), W)
            fh == FloorDiv(Dy(im), H)
        IN  /\ Len(chips) = fw * fh
            /\ \A n \in 0..(Len(chips) - 1) :
                  LET c == chips[n + 1]
                  IN  /\ c.X \in 0..(fw - 1)
                      /\ c.Y * fw + c.X = n
                      /\ c.Im = [Min |-> Pt(c.X * W, c.Y * H),
                                 Max |-> Pt((c.X + 1) * W, (c.Y + 1) * H)]
            /\ (Dx(im) < W \/ Dy(im) < H) =>
                  /\ chips = <<>>
                  /\ firstErr = "none"
                  /\ exit = "running"

C1_Witness ==
    /\ pc = "range"
    /\ Dx(im) = 2 * W + (W - 1)
    /\ Dy(im) = 2 * H
    /\ Len(chips) = 4
    /\ chips[3].X = 0
    /\ chips[3].Y = 1

InRect(px, py, r) ==
    /\ r.Min.X <= px /\ px < r.Max.X
    /\ r.Min.Y <= py /\ py < r.Max.Y

Overlaps(r, s) ==
    /\ r.Min.X < s.Max.X /\ s.Min.X < r.Max.X
    /\ r.Min.Y < s.Max.Y /\ s.Min.Y < r.Max.Y

ProbeXs == {c * W + r : c \in 0..(MaxWn + 1), r \in {0, 1, W - 1}}
ProbeYs == {c * H + r : c \in 0..(MaxHn + 1), r \in {0, 1, H - 1}}

\* C2: every chip rectangle is exactly W x H, the rectangles are pairwise
\* disjoint and inside the image, and they cover exactly
\* [0, wn*W) x [0, hn*H): a pixel belongs to one chip if it is in that
\* region and to none otherwise.
C2_ExactCover ==
    TilingDone =>
        LET fw == FloorDiv(Dx(im), W)
            fh == FloorDiv(Dy(im), H)
            idx == 1..Len(chips)
        IN  /\ \A n \in idx :
                  /\ Dx(chips[n].Im) = W
                  /\ Dy(chips[n].Im) = H
                  /\ chips[n].Im.Min.X >= im.Min.X
                  /\ chips[n].Im.Min.Y >= im.Min.Y
                  /\ chips[n].Im.Max.X <= im.Max.X
                  /\ chips[n].Im.Max.Y <= im.Max.Y
            /\ \A n, m \in idx : n # m => ~Overlaps(chips[n].Im, chips[m].Im)
            /\ Len(chips) * W * H = (fw * W) * (fh * H)
            /\ \A px \in ProbeXs, py \in ProbeYs :
                  (px < Dx(im) /\ py < Dy(im)) =>
                      Cardinality({n \in idx : InRect(px, py, chips[n].Im)})
                          = IF px < fw * W /\ py < fh * H THEN 1 ELSE 0

C2_Witness ==
    /\ pc = "range"
    /\ Len(chips) = 4
    /\ Dx(im) > 2 * W
    /\ Dy(im) > 2 * H
    /\ ~InRect(2 * W, 0, chips[2].Im)
    /\ InRect(2 * W - 1, 0, chips[2].Im)

\* math.Round of n / d: nearest integer, halves away from zero
Round(n, d) ==
    IF n >= 0 THEN (2 * n + d) \div (2 * d) ELSE -((2 * (-n) + d) \div (2 * d))

\* q is n / d truncated toward zero
IsTrunc(q, n, d) ==
    IF n >= 0 THEN q * d <= n /\ n < (q + 1) * d
    ELSE (q - 1) * d < n /\ n <= q * d

\* C3 as stated: transformBox rounds each scaled coordinate to the nearest
\* integer before adding the chip offset.
C3_Rounded ==
    pc = "tb_ret" =>
        tbRect = [Min |-> Pt(Round(tbBox[1] * W, Den) + tbX * W,
                             Round(tbBox[2] * H, Den) + tbY * H),
                  Max |-> Pt(Round(tbBox[3] * W, Den) + tbX * W,
                             Round(tbBox[4] * H, Den) + tbY * H)]

\* C3 amended: transformBox truncates each scaled coordinate toward zero
\* before adding the chip offset, and does not clamp.
C3_Truncated ==
    pc = "tb_ret" =>
        /\ IsTrunc(tbRect.Min.X - tbX * W, tbBox[1] * W, Den)
        /\ IsTrunc(tbRect.Max.X - tbX * W, tbBox[3] * W, Den)
        /\ IsTrunc(tbRect.Min.Y - tbY * H, tbBox[2] * H, Den)
        /\ IsTrunc(tbRect.Max.Y - tbY * H, tbBox[4] * H, Den)

C3_Witness ==
    /\ pc = "tb_ret"
    /\ tbX = 1
    /\ tbY = 1
    /\ tbBox = <<-1, 1, Den + 1, Den - 1>>
    /\ tbRect.Min.X < tbX * W
    /\ tbRect.Max.X > (tbX + 1) * W
    /\ tbRect.Min.Y = H + (W \div Den)

\* printDetections has just returned for chip i - 1
JustPrinted == pc = "range" /\ i >= 1

\* C4: for every chip exactly one line is printed per row of the batched
\* output, carrying that row's remapped box, class id and confidence, and
\* no other line.
C4_OneLinePerRow ==
    JustPrinted =>
        printed = [r \in 1..Len(output) |-> Line(MakeDetect(chips[i], output[r]))]


\* printBestLabel's loop over the probabilities has ended
ScanDone == probabilities # <<>> /\ k = Len(probabilities)

\* C5: for a non-empty probability vector the selected index is the smallest
\* index holding the maximum, and the printed line carries the label at that
\* position of the label file and that probability (as a whole percentage).
C5_FirstArgmax ==
    ScanDone =>
        /\ \A j \in 1..Len(probabilities) :
              probabilities[j] <= probabilities[bestIdx + 1]
        /\ \A j \in 1..bestIdx :
              probabilities[j] < probabilities[bestIdx + 1]
        /\ best # <<>> =>
              /\ best[2] = labelsFile.lines[bestIdx + 1]
              /\ 2 * (100 * probabilities[bestIdx + 1] - best[1] * Den) <= Den
              /\ 2 * (best[1] * Den - 100 * probabilities[bestIdx + 1]) <= Den

C5_Witness ==
    /\ pc = "halt"
    /\ exit = "ok"
    /\ Len(probabilities) = 3
    /\ probabilities[1] < probabilities[2]
    /\ probabilities[2] = probabilities[3]
    /\ bestIdx = 1
    /\ probabilities[2] = 3
    /\ best[1] = (2 * 300 + Den) \div (2 * Den)
    /\ best[2] = <<"1", ":", "c">>

\* C6: printBestLabel has no failure mode other than an empty probability
\* vector: with a non-empty vector and any label file content it prints
\* its line and the process does not abort.
C6_NoOtherFailure ==
    (ScanDone /\ labelsFile.state = "ok" /\ pc = "halt") =>
        (exit = "ok" /\ best # <<>>)

\* C7: with both flags supplied and the label file missing or unreadable,
\* the run ends fatally (diagnostic, non-zero status), whatever the image.
C7_MissingLabelsFatal ==
    (flagsOk /\ labelsFile.state \in {"missing", "readerr"} /\ pc = "halt") =>
        exit \in {"fatal", "panic"}

Malformed(line) == Len(Split(line)) < 2 \/ Atoi(Split(line)[1]).err

\* C8: a malformed label-file row (no colon, or a non-integer id) never
\* causes an error report or the end of the process; the detections of the
\* current chip and of the later chips are still printed.
C8_MalformedIgnored ==
    (/\ labelsFile.state = "ok"
     /\ \E n \in 1..Len(labelsFile.lines) : Malformed(labelsFile.lines[n]))
    => exit # "panic"

FinishedOk == pc = "halt" /\ exit = "ok" /\ im # <<>>

EvRank(e) == CASE e = "pre" -> 0 [] e = "infer" -> 1 [] e = "line" -> 2

IsInfer(e) == e.ev = "infer"
IsPre(e) == e.ev = "pre"

\* C9: in a run that finishes without error every chip is preprocessed and
\* fed to the session exactly once, in index order, the index order is
\* row-major (by Y, then X), and every line of chip c is printed before
\* chip c + 1 is preprocessed or inferred.
C9_SequentialChips ==
    /\ \A a \in 1..(Len(trace) - 1) :
          /\ trace[a].chip <= trace[a + 1].chip
          /\ trace[a].chip = trace[a + 1].chip =>
                EvRank(trace[a].ev) <= EvRank(trace[a + 1].ev)
    /\ FinishedOk =>
          LET infers == SelectSeq(trace, IsInfer)
              pres == SelectSeq(trace, IsPre)
          IN  /\ Len(infers) = Len(chips)
              /\ Len(pres) = Len(chips)
              /\ \A j \in 1..Len(chips) :
                    /\ infers[j].chip = j - 1
                    /\ pres[j].chip = j - 1
              /\ \A j \in 1..(Len(chips) - 1) :
                    \/ chips[j].Y < chips[j + 1].Y
                    \/ /\ chips[j].Y = chips[j + 1].Y
                       /\ chips[j].X < chips[j + 1].X

C9_Witness ==
    /\ FinishedOk
    /\ Len(chips) = 4
    /\ nrows >= 1
    /\ Len(trace) = 4 * (nrows + 3)
    /\ trace[Len(trace)] = [ev |-> "line", chip |-> 3, data |-> "stdout"]

\* C10: the detector ends fatally on the first error of any operation
\* (creating, encoding and closing a chip's temporary file included), so
\* nothing happens after a failure, and no inference consumes data that
\* was not written for that chip in this run.
C10_FatalOnFirstError ==
    /\ firstErr # "none" => exit \in {"fatal", "panic"}
    /\ \A n \in 1..Len(trace) :
          trace[n].ev = "infer" => trace[n].data = "cur"

====
